---- MODULE Spec2Model ----
(***************************************************************************)
(* Model of application/chat-interface/index.js: the Express chat proxy.   *)
(* Strings whose content the code inspects (trim, startsWith, ===, ||) are *)
(* sequences of one-character strings; JavaScript values are tagged        *)
(* records so that undefined, null, numbers and strings stay distinct.     *)
(***************************************************************************)
EXTENDS Integers, Sequences, FiniteSets, TLC

\* ------------------------------------------------------------------ bounds
MaxReq == 2
MaxEnvSet == 2

\* ------------------------------------------------------- JavaScript values
Undefined == [t |-> "undefined"]
Null == [t |-> "null"]
Str(s) == [t |-> "string", s |-> s]
Num(n) == [t |-> "number", n |-> n]

IsString(v) == v.t = "string"

\* ToBoolean: undefined, null, "" and 0 are falsy
Truthy(v) ==
    CASE v.t = "undefined" -> FALSE
      [] v.t = "null" -> FALSE
      [] v.t = "string" -> IF "s" \in DOMAIN v THEN v.s # <<>>
                           ELSE IF "text" \in DOMAIN v THEN v.text # ""
                           ELSE TRUE
      [] v.t = "number" -> v.n # 0
      [] OTHER -> TRUE

\* a || b
JsOr(a, b) == IF Truthy(a) THEN a ELSE b

WhiteSpace == {" ", "\t", "\n"}

RECURSIVE TrimStart(_)
TrimStart(s) ==
    IF s # <<>> /\ Head(s) \in WhiteSpace THEN TrimStart(Tail(s)) ELSE s

RECURSIVE TrimEnd(_)
TrimEnd(s) ==
    IF s # <<>> /\ s[Len(s)] \in WhiteSpace
    THEN TrimEnd(SubSeq(s, 1, Len(s) - 1))
    ELSE s

\* String.prototype.trim
Trim(s) == TrimEnd(TrimStart(s))

\* String.prototype.startsWith
StartsWith(s, p) == Len(s) >= Len(p) /\ SubSeq(s, 1, Len(p)) = p

\* property read on a plain object; a missing key reads as undefined
Get(obj, f) == IF f \in DOMAIN obj THEN obj[f] ELSE Undefined

\* ------------------------------------------------------- string constants
GOOGLE_VERTEXAI == <<"g", "o", "o", "g", "l", "e", "-", "v", "e", "r", "t", "e", "x", "a", "i">>
GOOGLE_AI_STUDIO == <<"g", "o", "o", "g", "l", "e", "-", "a", "i", "-", "s", "t", "u", "d", "i", "o">>
DefaultSecretName == <<"g", "e", "m", "i", "n", "i", "-", "a", "p", "i", "-", "k", "e", "y", "-", "s", "e", "c", "r", "e", "t">>
DefaultModelName == <<"g", "e", "m", "i", "n", "i", "-", "2", ".", "0", "-", "f", "l", "a", "s", "h", "-", "l", "i", "t", "e">>
DefaultLocation == <<"u", "s", "-", "c", "e", "n", "t", "r", "a", "l", "1">>
ProjectsPrefix == <<"p", "r", "o", "j", "e", "c", "t", "s", "/">>
SecretsInfix == <<"/", "s", "e", "c", "r", "e", "t", "s", "/">>
VersionsLatest == <<"/", "v", "e", "r", "s", "i", "o", "n", "s", "/", "l", "a", "t", "e", "s", "t">>

\* error messages thrown by the code
ErrNoProjectVertex == "GOOGLE_CLOUD_PROJECT environment variable is required for Vertex AI"
ErrNoSecret == "GOOGLE_AI_STUDIO_API_SECRET environment variable is required for Google AI Studio"
ErrNoProjectSecret == "GOOGLE_CLOUD_PROJECT environment variable is required to resolve Secret Manager secrets"
ErrInvalidProvider == "Invalid model provider"

\* ------------------------------------------------- environment (inputs)
EnvNames == {"MODEL_NAME", "GOOGLE_CLOUD_PROJECT", "GCP_PROJECT",
             "GOOGLE_CLOUD_REGION", "GCP_REGION", "MODEL_PROVIDER",
             "GOOGLE_AI_STUDIO_API_SECRET"}

FqSecretRef == ProjectsPrefix \o <<"p", "1">> \o SecretsInfix \o <<"s">>

\* the values each variable takes; Undefined is "not set"
EnvChoices ==
    [MODEL_NAME : {Undefined, Str(<<"m">>)},
     GOOGLE_CLOUD_PROJECT : {Undefined, Str(<<>>), Str(<<"p", "1">>)},
     GCP_PROJECT : {Undefined, Str(<<"p", "2">>)},
     GOOGLE_CLOUD_REGION : {Undefined, Str(<<"r">>)},
     GCP_REGION : {Undefined, Str(<<"r", "2">>)},
     MODEL_PROVIDER : {Undefined, Str(<<>>), Str(GOOGLE_VERTEXAI),
                       Str(GOOGLE_AI_STUDIO), Str(<<"v", "e", "r", "t", "e", "x">>)},
     GOOGLE_AI_STUDIO_API_SECRET : {Undefined, Str(<<>>), Str(<<"s">>),
                       Str(FqSecretRef), Str(<<"p", "r", "o", "j", "e", "c", "t", "s">>)}]

\* environments with at most MaxEnvSet variables set
Envs == {e \in EnvChoices :
            Cardinality({n \in EnvNames : e[n] # Undefined}) <= MaxEnvSet}

NoProvider == [kind |-> "none"]
NoModel == [t |-> "null"]

\* ----------------------------------------------- further JavaScript values
\* a string whose characters the code never inspects
Text(x) == [t |-> "string", text |-> x]
Obj(f) == [t |-> "object", f |-> f]
Arr(a) == [t |-> "array", a |-> a]
EmptyObj == Obj([k \in {} |-> Undefined])

\* JSON.stringify, as res.json applies it: keys holding undefined are dropped
RECURSIVE Json(_)
Json(v) ==
    IF v.t = "object"
    THEN Obj([k \in {j \in DOMAIN v.f : v.f[j] # Undefined} |-> Json(v.f[k])])
    ELSE v

\* outcome of an awaited call or of an async function
Resolve(v) == [ok |-> TRUE, v |-> v]
Reject(m) == [ok |-> FALSE, msg |-> m]

\* ---------------------------------------------------------------- inputs
\* message texts: empty, white space only, plain, padded with white space
Strings == {<<>>, <<" ", "\n">>, <<"a">>, <<" ", "a", " ">>}

\* request bodies as express.json() hands them to the handlers
MessageValues == {Str(s) : s \in Strings} \cup {Null, Num(5)}
PostBodies == {EmptyObj} \cup {Obj([message |-> v]) : v \in MessageValues}
GetBodies == {EmptyObj, Obj([message |-> Str(<<"a">>)])}

\* what accessSecretVersion can answer: a rejection, a version with its
\* payload, a version without payload, a payload without data
SecretOutcomes ==
    {Reject("NOT_FOUND"), Reject("PERMISSION_DENIED"),
     Resolve(Obj([payload |-> Obj([data |-> Str(<<" ", "k", "\n">>)])])),
     Resolve(Obj([name |-> Text("v")])),
     Resolve(Obj([name |-> Text("v"), payload |-> EmptyObj]))}

\* what model.generateContent of the Vertex SDK can answer: a rejection or a
\* result whose response.candidates is absent, empty, or a list of candidates
\* (each abbreviated to its content.parts[0].text)
VertexOutcomes ==
    {Reject("backend unavailable"),
     Resolve(Obj([x \in {} |-> Undefined])),
     Resolve(Obj([candidates |-> Arr(<<>>)])),
     Resolve(Obj([candidates |-> Arr(<<Text("r1")>>)])),
     Resolve(Obj([candidates |-> Arr(<<Text("r2"), Text("r1")>>)])),
     Resolve(Obj([candidates |-> Arr(<<Undefined>>)]))}

\* what model.generateContent of the AI Studio SDK can answer: a rejection
\* or a result whose response.text() returns a string (the empty string for
\* a response that carries no candidate text) or throws
StudioOutcomes ==
    {Reject("backend unavailable"),
     Resolve(Obj([text |-> Resolve(Text("r1"))])),
     Resolve(Obj([text |-> Resolve(Text("r2"))])),
     Resolve(Obj([text |-> Resolve(Text(""))])),
     Resolve(Obj([text |-> Reject("response blocked")]))}

NoOutcome == [ok |-> FALSE, none |-> TRUE]
NoResponse == [status |-> 0]

VARIABLES
    env,                      \* process.env, fixed for the process lifetime
    modelName, project, location, modelProvider, googleAIStudioApiSecret,
    provider,                 \* the module-level provider object
    pc,                       \* position of module evaluation / startServer
    exitCode,                 \* -1 while the process runs
    listening,                \* the port is bound
    initCalls,                \* number of provider.init() invocations
    initError,                \* message of the error init rejected with
    secretCalls,              \* paths passed to accessSecretVersion
    secretAnswer,             \* what accessSecretVersion answered
    reqs,                     \* requests handed to the route handlers
    calls                     \* outbound model.generateContent calls

configVars == <<modelName, project, location, modelProvider, googleAIStudioApiSecret>>
startVars == <<pc, exitCode, listening, initCalls, initError, secretCalls,
               secretAnswer>>
serveVars == <<reqs, calls>>
serverVars == <<env, configVars, provider, startVars, serveVars>>

\* setup.sh
VARIABLES
    setupPc,                  \* position in main
    setupRunning,             \* the child script main is waiting for, or ""
    PROJECT_ID, REGION, GITHUB_REPO,
    setupLog,                 \* the child scripts started, with their exit status
    setupExit                 \* exit status of setup.sh, -1 while it runs

setupVars == <<setupPc, setupRunning, PROJECT_ID, REGION, GITHUB_REPO, setupLog,
               setupExit>>

\* the ai-chat-interface web component
VARIABLES
    hasInput, hasOutput,      \* the include-input / include-output attributes
    pendingRenders,           \* render() calls waiting for the stylesheet
    rendered,                 \* render() has filled the shadow root
    inputValue,               \* inputBox.value
    responseHTML,             \* innerHTML of .ai-chat-response
    responseError,            \* .ai-chat-response has class ai-chat-response-error
    data,                     \* this._data
    fetches,                  \* the POSTs issued, in order
    events                    \* the events dispatched, in order

clientVars == <<hasInput, hasOutput, pendingRenders, rendered, inputValue,
                responseHTML, responseError, data, fetches, events>>

\* what the server process does not touch
outsideServer == <<setupVars, clientVars>>

vars == <<serverVars, setupVars, clientVars>>

ServerInit ==
    /\ env \in Envs
    /\ modelName = Undefined
    /\ project = Undefined
    /\ location = Undefined
    /\ modelProvider = Undefined
    /\ googleAIStudioApiSecret = Undefined
    /\ provider = NoProvider
    /\ pc = "load"
    /\ exitCode = -1
    /\ listening = FALSE
    /\ initCalls = 0
    /\ initError = ""
    /\ secretCalls = <<>>
    /\ secretAnswer = NoOutcome
    /\ reqs = <<>>
    /\ calls = <<>>

\* setup.sh has not been started
SetupOff ==
    /\ setupPc = "off"
    /\ setupRunning = ""
    /\ PROJECT_ID = ""
    /\ REGION = ""
    /\ GITHUB_REPO = ""
    /\ setupLog = <<>>
    /\ setupExit = -1

\* no ai-chat-interface element has been created
ClientOff ==
    /\ hasInput = FALSE
    /\ hasOutput = FALSE
    /\ pendingRenders = 0
    /\ rendered = FALSE
    /\ inputValue = <<>>
    /\ responseHTML = [t |-> "html", none |-> TRUE]
    /\ responseError = FALSE
    /\ data = Null
    /\ fetches = <<>>
    /\ events = <<>>

Init == ServerInit /\ SetupOff /\ ClientOff

\* ------------------------------------------------------------- startup
\* ReadConfig defaulting the provider kind to Vertex AI
ReadConfig_DefaultVertex ==
    /\ pc = "load"
    /\ modelName' = JsOr(env["MODEL_NAME"], Str(DefaultModelName))
    /\ project' = JsOr(env["GOOGLE_CLOUD_PROJECT"], env["GCP_PROJECT"])
    /\ location' = JsOr(JsOr(env["GOOGLE_CLOUD_REGION"], env["GCP_REGION"]),
                        Str(DefaultLocation))
    /\ modelProvider' = JsOr(env["MODEL_PROVIDER"], Str(GOOGLE_VERTEXAI))
    /\ googleAIStudioApiSecret' =
           JsOr(env["GOOGLE_AI_STUDIO_API_SECRET"], Str(DefaultSecretName))
    /\ pc' = "create"
    /\ UNCHANGED <<env, provider, exitCode, listening, initCalls, initError,
                   secretCalls, secretAnswer, serveVars>>
    /\ UNCHANGED outsideServer

\* ReadConfig without a default secret name
ReadConfig_NoSecretDefault ==
    /\ pc = "load"
    /\ modelName' = JsOr(env["MODEL_NAME"], Str(DefaultModelName))
    /\ project' = JsOr(env["GOOGLE_CLOUD_PROJECT"], env["GCP_PROJECT"])
    /\ location' = JsOr(JsOr(env["GOOGLE_CLOUD_REGION"], env["GCP_REGION"]),
                        Str(DefaultLocation))
    /\ modelProvider' = JsOr(env["MODEL_PROVIDER"], Str(GOOGLE_AI_STUDIO))
    /\ googleAIStudioApiSecret' = env["GOOGLE_AI_STUDIO_API_SECRET"]
    /\ pc' = "create"
    /\ UNCHANGED <<env, provider, exitCode, listening, initCalls, initError,
                   secretCalls, secretAnswer, serveVars>>
    /\ UNCHANGED outsideServer

\* module-level configuration constants
ReadConfig ==
    /\ pc = "load"
    /\ modelName' = JsOr(env["MODEL_NAME"], Str(DefaultModelName))
    /\ project' = JsOr(env["GOOGLE_CLOUD_PROJECT"], env["GCP_PROJECT"])
    /\ location' = JsOr(JsOr(env["GOOGLE_CLOUD_REGION"], env["GCP_REGION"]),
                        Str(DefaultLocation))
    /\ modelProvider' = JsOr(env["MODEL_PROVIDER"], Str(GOOGLE_AI_STUDIO))
    /\ googleAIStudioApiSecret' =
           JsOr(env["GOOGLE_AI_STUDIO_API_SECRET"], Str(DefaultSecretName))
    /\ pc' = "create"
    /\ UNCHANGED <<env, provider, exitCode, listening, initCalls, initError,
                   secretCalls, secretAnswer, serveVars>>
    /\ UNCHANGED outsideServer

VertexAIProvider(m, p, l) ==
    [kind |-> "VertexAIProvider", modelName |-> m, project |-> p,
     location |-> l, model |-> NoModel]

GoogleAIStudioProvider(m, p, s) ==
    [kind |-> "GoogleAIStudioProvider", modelName |-> m, project |-> p,
     secretName |-> s, model |-> NoModel]

\* createProvider falling back to the default variant
createProvider_Fallback ==
    IF modelProvider = Str(GOOGLE_VERTEXAI)
    THEN Resolve(VertexAIProvider(modelName, project, location))
    ELSE Resolve(GoogleAIStudioProvider(modelName, project, googleAIStudioApiSecret))

\* createProvider(): the provider object, or the error it throws
createProvider ==
    IF modelProvider = Str(GOOGLE_VERTEXAI)
    THEN Resolve(VertexAIProvider(modelName, project, location))
    ELSE IF modelProvider = Str(GOOGLE_AI_STUDIO)
    THEN Resolve(GoogleAIStudioProvider(modelName, project, googleAIStudioApiSecret))
    ELSE Reject(ErrInvalidProvider)

\* const provider = createProvider(); a throw here is an uncaught exception
\* of module evaluation, which ends the process with exit code 1
CreateProviderStep ==
    /\ pc = "create"
    /\ IF createProvider.ok
       THEN /\ provider' = createProvider.v
            /\ pc' = "start"
            /\ UNCHANGED exitCode
       ELSE /\ pc' = "exited"
            /\ exitCode' = 1
            /\ UNCHANGED provider
    /\ UNCHANGED <<env, configVars, listening, initCalls, initError,
                   secretCalls, secretAnswer, serveVars>>
    /\ UNCHANGED outsideServer

\* VertexAIProviderInit without the project check
VertexAIProviderInit_NoCheck ==
    /\ pc = "start"
    /\ provider.kind = "VertexAIProvider"
    /\ initCalls' = initCalls + 1
    /\ provider' = [provider EXCEPT !.model =
           [sdk |-> "VertexAI", project |-> provider.project,
            location |-> provider.location, model |-> provider.modelName]]
    /\ pc' = "initDone"
    /\ UNCHANGED initError
    /\ UNCHANGED <<env, configVars, exitCode, listening, secretCalls, secretAnswer, serveVars>>
    /\ UNCHANGED outsideServer

\* VertexAIProvider.init, called by startServer
VertexAIProviderInit ==
    /\ pc = "start"
    /\ provider.kind = "VertexAIProvider"
    /\ initCalls' = initCalls + 1
    /\ IF ~Truthy(provider.project)
       THEN /\ initError' = ErrNoProjectVertex
            /\ pc' = "initFailed"
            /\ UNCHANGED provider
       ELSE /\ provider' = [provider EXCEPT !.model =
                   [sdk |-> "VertexAI", project |-> provider.project,
                    location |-> provider.location, model |-> provider.modelName]]
            /\ pc' = "initDone"
            /\ UNCHANGED initError
    /\ UNCHANGED <<env, configVars, exitCode, listening, secretCalls, secretAnswer, serveVars>>
    /\ UNCHANGED outsideServer

\* secretVersion leaving a fully-qualified reference as it is
secretVersion_NoLatest(p) ==
    IF StartsWith(p.secretName.s, ProjectsPrefix)
    THEN p.secretName.s
    ELSE ProjectsPrefix \o p.project.s \o SecretsInfix \o p.secretName.s
             \o VersionsLatest

\* the secret-version path GoogleAIStudioProvider.init asks for
secretVersion(p) ==
    IF StartsWith(p.secretName.s, ProjectsPrefix)
    THEN p.secretName.s \o VersionsLatest
    ELSE ProjectsPrefix \o p.project.s \o SecretsInfix \o p.secretName.s
             \o VersionsLatest

\* GoogleAIStudioProviderInit requiring a project for every secret reference
GoogleAIStudioProviderInit_ProjectAlways ==
    /\ pc = "start"
    /\ provider.kind = "GoogleAIStudioProvider"
    /\ initCalls' = initCalls + 1
    /\ IF ~Truthy(provider.secretName)
       THEN /\ initError' = ErrNoSecret
            /\ pc' = "initFailed"
            /\ UNCHANGED secretCalls
       ELSE IF ~Truthy(provider.project)
       THEN /\ initError' = ErrNoProjectSecret
            /\ pc' = "initFailed"
            /\ UNCHANGED secretCalls
       ELSE /\ secretCalls' = Append(secretCalls, secretVersion(provider))
            /\ pc' = "awaitSecret"
            /\ UNCHANGED initError
    /\ UNCHANGED <<env, configVars, provider, exitCode, listening, secretAnswer,
                   serveVars>>
    /\ UNCHANGED outsideServer

\* GoogleAIStudioProvider.init up to its await of accessSecretVersion
GoogleAIStudioProviderInit ==
    /\ pc = "start"
    /\ provider.kind = "GoogleAIStudioProvider"
    /\ initCalls' = initCalls + 1
    /\ IF ~Truthy(provider.secretName)
       THEN /\ initError' = ErrNoSecret
            /\ pc' = "initFailed"
            /\ UNCHANGED secretCalls
       ELSE IF ~Truthy(provider.project)
               /\ ~StartsWith(provider.secretName.s, ProjectsPrefix)
       THEN /\ initError' = ErrNoProjectSecret
            /\ pc' = "initFailed"
            /\ UNCHANGED secretCalls
       ELSE /\ secretCalls' = Append(secretCalls, secretVersion(provider))
            /\ pc' = "awaitSecret"
            /\ UNCHANGED initError
    /\ UNCHANGED <<env, configVars, provider, exitCode, listening, secretAnswer,
                   serveVars>>
    /\ UNCHANGED outsideServer

\* version.payload.data.toString('utf8').trim(), or the TypeError of reading
\* a payload that is not there
apiKeyOf(version) ==
    IF Get(version.f, "payload") = Undefined
    THEN Reject("Cannot read properties of undefined (reading 'data')")
    ELSE IF Get(version.f["payload"].f, "data") = Undefined
    THEN Reject("Cannot read properties of undefined (reading 'toString')")
    ELSE Resolve(Trim(version.f["payload"].f["data"].s))

\* SecretAccessReturns building the model client whatever the answer was
SecretAccessReturns_IgnoreFailure ==
    /\ pc = "awaitSecret"
    /\ \E o \in SecretOutcomes :
          /\ secretAnswer' = o
          /\ provider' = [provider EXCEPT !.model =
                 [sdk |-> "GoogleGenerativeAI",
                  apiKey |-> IF o.ok /\ apiKeyOf(o.v).ok THEN apiKeyOf(o.v).v ELSE <<>>,
                  model |-> provider.modelName]]
          /\ pc' = "initDone"
          /\ UNCHANGED initError
    /\ UNCHANGED <<env, configVars, exitCode, listening, initCalls,
                   secretCalls, serveVars>>
    /\ UNCHANGED outsideServer

\* GoogleAIStudioProvider.init from the answer of accessSecretVersion on
SecretAccessReturns ==
    /\ pc = "awaitSecret"
    /\ \E o \in SecretOutcomes :
          /\ secretAnswer' = o
          /\ IF o.ok /\ apiKeyOf(o.v).ok
             THEN /\ provider' = [provider EXCEPT !.model =
                         [sdk |-> "GoogleGenerativeAI", apiKey |-> apiKeyOf(o.v).v,
                          model |-> provider.modelName]]
                  /\ pc' = "initDone"
                  /\ UNCHANGED initError
             ELSE /\ initError' = (IF o.ok THEN apiKeyOf(o.v).msg ELSE o.msg)
                  /\ pc' = "initFailed"
                  /\ UNCHANGED provider
    /\ UNCHANGED <<env, configVars, exitCode, listening, initCalls,
                   secretCalls, serveVars>>
    /\ UNCHANGED outsideServer

\* StartServerListen when provider.init() is not awaited
StartServerListen_NoAwait ==
    /\ pc \in {"initDone", "initFailed", "awaitSecret"}
    /\ listening' = TRUE
    /\ pc' = "listening"
    /\ UNCHANGED <<env, configVars, provider, exitCode, initCalls, initError,
                   secretCalls, secretAnswer, serveVars>>
    /\ UNCHANGED outsideServer

\* startServer after init resolved: app.listen
StartServerListen ==
    /\ pc = "initDone"
    /\ listening' = TRUE
    /\ pc' = "listening"
    /\ UNCHANGED <<env, configVars, provider, exitCode, initCalls, initError,
                   secretCalls, secretAnswer, serveVars>>
    /\ UNCHANGED outsideServer

\* startServer's catch: process.exit(1)
StartServerCatch ==
    /\ pc = "initFailed"
    /\ exitCode' = 1
    /\ pc' = "exited"
    /\ UNCHANGED <<env, configVars, provider, listening, initCalls, initError,
                   secretCalls, secretAnswer, serveVars>>
    /\ UNCHANGED outsideServer

\* ------------------------------------------------------------- serving
Serving == pc = "listening" /\ listening /\ exitCode = -1

Response(status, body) == [status |-> status, body |-> Json(body)]

\* GetResponse without the echo of the body
GetResponse_NoEcho(body) ==
    Response(200, Obj([message |-> Text("Health check successful")]))

\* app.get('/')
GetResponse(body) ==
    Response(200, Obj([message |-> Text("Health check successful"),
                       request |-> body]))

HandleGet ==
    /\ Serving
    /\ Len(reqs) < MaxReq
    /\ \E body \in GetBodies :
          reqs' = Append(reqs, [method |-> "GET", body |-> body, st |-> "done",
                                outcome |-> NoOutcome, res |-> GetResponse(body)])
    /\ UNCHANGED <<env, configVars, provider, startVars, calls>>
    /\ UNCHANGED outsideServer

\* MessageCheck without the trim() test
MessageCheck_NoTrim(userMessage) ==
    IF ~Truthy(userMessage) THEN "reject"
    ELSE IF ~IsString(userMessage) THEN "throw"
    ELSE "pass"

\* the guard of app.post('/'): "reject" for the 400 branch, "throw" when
\* evaluating the guard itself throws, "pass" otherwise
MessageCheck(userMessage) ==
    IF ~Truthy(userMessage) THEN "reject"
    ELSE IF ~IsString(userMessage) THEN "throw"
    ELSE IF ~Truthy(Str(Trim(userMessage.s))) THEN "reject"
    ELSE "pass"

BadRequest == Response(400, Obj([error |-> Text("Message is required")]))

\* ErrorResponse hiding the failure's message
ErrorResponse_Generic(msg) ==
    Response(500, Obj([error |-> Text("Error generating content"),
                       details |-> Text("Internal error")]))

\* the catch block of app.post('/')
ErrorResponse(msg) ==
    Response(500, Obj([error |-> Text("Error generating content"),
                       details |-> Text(msg)]))

\* SuccessResponse taking the debug model name from the request
SuccessResponse_DebugFromRequest(responseText, jsonPayload) ==
    Response(200, Obj([reply |-> responseText,
                       request |-> jsonPayload,
                       debug |-> Obj([MODEL_NAME |-> Get(jsonPayload.f, "message"),
                                      project |-> project,
                                      location |-> location,
                                      modelProvider |-> modelProvider])]))

\* the success branch of app.post('/')
SuccessResponse(responseText, jsonPayload) ==
    Response(200, Obj([reply |-> responseText,
                       request |-> jsonPayload,
                       debug |-> Obj([MODEL_NAME |-> modelName,
                                      project |-> project,
                                      location |-> location,
                                      modelProvider |-> modelProvider])]))

\* Prompt carrying the number of earlier calls as conversation state
Prompt_WithHistory(p, userMessage) ==
    IF p.kind = "VertexAIProvider"
    THEN Obj([contents |-> Arr(<<Obj([role |-> Text("user"),
                                     parts |-> Arr(<<Obj([text |-> userMessage])>>)])>>),
              turn |-> Num(Len(calls))])
    ELSE Obj([text |-> userMessage, turn |-> Num(Len(calls))])

\* Prompt sending the trimmed message
Prompt_Trimmed(p, userMessage) ==
    IF p.kind = "VertexAIProvider"
    THEN Obj([contents |-> Arr(<<Obj([role |-> Text("user"),
                                     parts |-> Arr(<<Obj([text |-> Str(Trim(userMessage.s))])>>)])>>)])
    ELSE Str(Trim(userMessage.s))

\* the argument provider.generateContent passes to model.generateContent
Prompt(p, userMessage) ==
    IF p.kind = "VertexAIProvider"
    THEN Obj([contents |-> Arr(<<Obj([role |-> Text("user"),
                                     parts |-> Arr(<<Obj([text |-> userMessage])>>)])>>)])
    ELSE userMessage

\* PostReceive with the message guard outside the try block: its throw
\* leaves the handler without a response
PostReceive_ThrowEscapes ==
    /\ Serving
    /\ Len(reqs) < MaxReq
    /\ \E jsonPayload \in PostBodies :
          LET userMessage == Get(jsonPayload.f, "message")
              chk == MessageCheck(userMessage)
              id == Len(reqs) + 1
              req == [method |-> "POST", body |-> jsonPayload, st |-> "done",
                      outcome |-> NoOutcome, res |-> NoResponse]
          IN  IF chk = "reject"
              THEN /\ reqs' = Append(reqs, [req EXCEPT !.res = BadRequest])
                   /\ UNCHANGED calls
              ELSE IF chk = "throw"
              THEN /\ reqs' = Append(reqs, req)
                   /\ UNCHANGED calls
              ELSE IF provider.model = NoModel
              THEN /\ reqs' = Append(reqs, [req EXCEPT !.res =
                           ErrorResponse("Cannot read properties of null (reading 'generateContent')")])
                   /\ UNCHANGED calls
              ELSE /\ reqs' = Append(reqs, [req EXCEPT !.st = "awaiting"])
                   /\ calls' = Append(calls, [req |-> id,
                                              prompt |-> Prompt(provider, userMessage)])
    /\ UNCHANGED <<env, configVars, provider, startVars>>
    /\ UNCHANGED outsideServer

\* PostReceive calling the provider before it checks the message
PostReceive_CallBeforeCheck ==
    /\ Serving
    /\ Len(reqs) < MaxReq
    /\ \E jsonPayload \in PostBodies :
          LET userMessage == Get(jsonPayload.f, "message")
              chk == MessageCheck(userMessage)
              id == Len(reqs) + 1
              req == [method |-> "POST", body |-> jsonPayload, st |-> "done",
                      outcome |-> NoOutcome, res |-> NoResponse]
          IN  IF chk = "reject"
              THEN /\ reqs' = Append(reqs, [req EXCEPT !.res = BadRequest])
                   /\ calls' = Append(calls, [req |-> id,
                                              prompt |-> Prompt(provider, userMessage)])
              ELSE IF chk = "throw"
              THEN /\ reqs' = Append(reqs, [req EXCEPT !.res =
                           ErrorResponse("userMessage.trim is not a function")])
                   /\ UNCHANGED calls
              ELSE /\ reqs' = Append(reqs, [req EXCEPT !.st = "awaiting"])
                   /\ calls' = Append(calls, [req |-> id,
                                              prompt |-> Prompt(provider, userMessage)])
    /\ UNCHANGED <<env, configVars, provider, startVars>>
    /\ UNCHANGED outsideServer

\* app.post('/') up to its await of provider.generateContent
PostReceive ==
    /\ Serving
    /\ Len(reqs) < MaxReq
    /\ \E jsonPayload \in PostBodies :
          LET userMessage == Get(jsonPayload.f, "message")
              chk == MessageCheck(userMessage)
              id == Len(reqs) + 1
              req == [method |-> "POST", body |-> jsonPayload, st |-> "done",
                      outcome |-> NoOutcome, res |-> NoResponse]
          IN  IF chk = "reject"
              THEN /\ reqs' = Append(reqs, [req EXCEPT !.res = BadRequest])
                   /\ UNCHANGED calls
              ELSE IF chk = "throw"
              THEN /\ reqs' = Append(reqs, [req EXCEPT !.res =
                           ErrorResponse("userMessage.trim is not a function")])
                   /\ UNCHANGED calls
              ELSE IF provider.model = NoModel
              THEN /\ reqs' = Append(reqs, [req EXCEPT !.res =
                           ErrorResponse("Cannot read properties of null (reading 'generateContent')")])
                   /\ UNCHANGED calls
              ELSE /\ reqs' = Append(reqs, [req EXCEPT !.st = "awaiting"])
                   /\ calls' = Append(calls, [req |-> id,
                                              prompt |-> Prompt(provider, userMessage)])
    /\ UNCHANGED <<env, configVars, provider, startVars>>
    /\ UNCHANGED outsideServer

\* VertexText reading the last candidate instead of the first
VertexText_LastCandidate(o) ==
    IF ~o.ok THEN Reject(o.msg)
    ELSE IF Get(o.v.f, "candidates") = Undefined
    THEN Reject("Cannot read properties of undefined (reading '0')")
    ELSE IF Len(o.v.f["candidates"].a) = 0
    THEN Reject("Cannot read properties of undefined (reading 'content')")
    ELSE Resolve(o.v.f["candidates"].a[Len(o.v.f["candidates"].a)])

\* VertexAIProvider.generateContent after its await:
\* result.response.candidates[0].content.parts[0].text
VertexText(o) ==
    IF ~o.ok THEN Reject(o.msg)
    ELSE IF Get(o.v.f, "candidates") = Undefined
    THEN Reject("Cannot read properties of undefined (reading '0')")
    ELSE IF Len(o.v.f["candidates"].a) = 0
    THEN Reject("Cannot read properties of undefined (reading 'content')")
    ELSE Resolve(o.v.f["candidates"].a[1])

\* GoogleAIStudioProvider.generateContent after its await:
\* result.response.text()
StudioText(o) ==
    IF ~o.ok THEN Reject(o.msg)
    ELSE IF ~o.v.f["text"].ok THEN Reject(o.v.f["text"].msg)
    ELSE Resolve(o.v.f["text"].v)

Outcomes(p) ==
    IF p.kind = "VertexAIProvider" THEN VertexOutcomes ELSE StudioOutcomes

generateContent(p, o) ==
    IF p.kind = "VertexAIProvider" THEN VertexText(o) ELSE StudioText(o)

\* PostResume replacing the provider variant after a failed generation
PostResume_SwitchOnFailure ==
    /\ Serving
    /\ \E i \in 1..Len(reqs) :
          /\ reqs[i].st = "awaiting"
          /\ \E o \in Outcomes(provider) :
                LET r == generateContent(provider, o)
                IN  /\ reqs' = [reqs EXCEPT ![i] =
                           [@ EXCEPT !.st = "done", !.outcome = o,
                                     !.res = IF r.ok
                                             THEN SuccessResponse(r.v, reqs[i].body)
                                             ELSE ErrorResponse(r.msg)]]
                    /\ provider' =
                           IF r.ok THEN provider
                           ELSE [provider EXCEPT !.kind =
                                    IF @ = "VertexAIProvider"
                                    THEN "GoogleAIStudioProvider"
                                    ELSE "VertexAIProvider"]
    /\ UNCHANGED <<env, configVars, startVars, calls>>
    /\ UNCHANGED outsideServer

\* PostResume keeping the last answer on the provider object
PostResume_WritesProvider ==
    /\ Serving
    /\ \E i \in 1..Len(reqs) :
          /\ reqs[i].st = "awaiting"
          /\ \E o \in Outcomes(provider) :
                LET r == generateContent(provider, o)
                IN  /\ reqs' = [reqs EXCEPT ![i] =
                           [@ EXCEPT !.st = "done", !.outcome = o,
                                     !.res = IF r.ok
                                             THEN SuccessResponse(r.v, reqs[i].body)
                                             ELSE ErrorResponse(r.msg)]]
                    /\ provider' = [provider EXCEPT !.model =
                                       [@ EXCEPT !.model = Text("last")]]
    /\ UNCHANGED <<env, configVars, startVars, calls>>
    /\ UNCHANGED outsideServer

\* PostResume calling the model a second time after a failure
PostResume_RetryOnce ==
    /\ Serving
    /\ \E i \in 1..Len(reqs) :
          /\ reqs[i].st = "awaiting"
          /\ \E o \in Outcomes(provider) :
                LET r == generateContent(provider, o)
                    made == {k \in DOMAIN calls : calls[k].req = i}
                IN  IF ~r.ok /\ Cardinality(made) = 1
                    THEN /\ calls' = Append(calls, calls[CHOOSE k \in made : TRUE])
                         /\ UNCHANGED reqs
                    ELSE /\ reqs' = [reqs EXCEPT ![i] =
                                [@ EXCEPT !.st = "done", !.outcome = o,
                                          !.res = IF r.ok
                                                  THEN SuccessResponse(r.v, reqs[i].body)
                                                  ELSE ErrorResponse(r.msg)]]
                         /\ UNCHANGED calls
    /\ UNCHANGED <<env, configVars, provider, startVars>>
    /\ UNCHANGED outsideServer

\* PostResume whose catch block ends the process
PostResume_CrashOnError ==
    /\ Serving
    /\ \E i \in 1..Len(reqs) :
          /\ reqs[i].st = "awaiting"
          /\ \E o \in Outcomes(provider) :
                LET r == generateContent(provider, o)
                IN  /\ reqs' = [reqs EXCEPT ![i] =
                           [@ EXCEPT !.st = "done", !.outcome = o,
                                     !.res = IF r.ok
                                             THEN SuccessResponse(r.v, reqs[i].body)
                                             ELSE ErrorResponse(r.msg)]]
                    /\ IF r.ok
                       THEN UNCHANGED <<pc, exitCode, listening>>
                       ELSE pc' = "exited" /\ exitCode' = 1 /\ listening' = FALSE
    /\ UNCHANGED <<env, configVars, provider, initCalls, initError, secretCalls,
                   secretAnswer, calls>>
    /\ UNCHANGED outsideServer

\* PostResume initializing the provider again after a failed generation
PostResume_ReinitOnFailure ==
    /\ Serving
    /\ \E i \in 1..Len(reqs) :
          /\ reqs[i].st = "awaiting"
          /\ \E o \in Outcomes(provider) :
                LET r == generateContent(provider, o)
                IN  /\ reqs' = [reqs EXCEPT ![i] =
                           [@ EXCEPT !.st = "done", !.outcome = o,
                                     !.res = IF r.ok
                                             THEN SuccessResponse(r.v, reqs[i].body)
                                             ELSE ErrorResponse(r.msg)]]
                    /\ initCalls' = IF r.ok THEN initCalls ELSE initCalls + 1
    /\ UNCHANGED <<env, configVars, provider, pc, exitCode, listening, initError,
                   secretCalls, secretAnswer, calls>>
    /\ UNCHANGED outsideServer

\* app.post('/') from the settlement of provider.generateContent on
PostResume ==
    /\ Serving
    /\ \E i \in 1..Len(reqs) :
          /\ reqs[i].st = "awaiting"
          /\ \E o \in Outcomes(provider) :
                LET r == generateContent(provider, o)
                IN  reqs' = [reqs EXCEPT ![i] =
                        [@ EXCEPT !.st = "done", !.outcome = o,
                                  !.res = IF r.ok
                                          THEN SuccessResponse(r.v, reqs[i].body)
                                          ELSE ErrorResponse(r.msg)]]
    /\ UNCHANGED <<env, configVars, provider, startVars, calls>>
    /\ UNCHANGED outsideServer

Next ==
    \/ ReadConfig
    \/ CreateProviderStep
    \/ VertexAIProviderInit
    \/ GoogleAIStudioProviderInit
    \/ SecretAccessReturns
    \/ StartServerListen
    \/ StartServerCatch
    \/ HandleGet
    \/ PostReceive
    \/ PostResume

Spec == Init /\ [][Next]_vars

\* ================================================================ setup.sh
\* the server process has not been started
ServerOff == ServerInit /\ env = [n \in EnvNames |-> Undefined]

ProjectArgs == {"", "my-project"}
RegionArgs == {"", "us-west1"}
TypedProjects == {"", "typed-project"}
DerivedProjectId == "forkai"
Origins == {"none", "owner/repo"}
Replies == {"y", "Y", "n", ""}
ExitStatuses == {0, 1}

SetupInit ==
    /\ setupPc = "validate"
    /\ setupRunning = ""
    /\ PROJECT_ID = ""
    /\ REGION = ""
    /\ GITHUB_REPO = ""
    /\ setupLog = <<>>
    /\ setupExit = -1

InitSetup == ServerOff /\ SetupInit /\ ClientOff

SetupExits(status) ==
    /\ setupPc' = "exited"
    /\ setupExit' = status

\* validate_prerequisites and validate_authentication: exit 1 on any error
ValidateEnvironment ==
    /\ setupPc = "validate"
    /\ \E has_errors \in BOOLEAN :
          IF has_errors
          THEN SetupExits(1)
          ELSE setupPc' = "project" /\ UNCHANGED setupExit
    /\ UNCHANGED <<setupRunning, PROJECT_ID, REGION, GITHUB_REPO, setupLog>>
    /\ UNCHANGED <<serverVars, clientVars>>

\* PROJECT_ID from $1, or read from the terminal with the derived default;
\* set_and_validate_project and check_and_enable_billing exit 1 when they
\* fail; REGION from $2 or us-central1
ResolveProject ==
    /\ setupPc = "project"
    /\ \E arg1 \in ProjectArgs, arg2 \in RegionArgs, typed \in TypedProjects,
          usable \in BOOLEAN :
          /\ PROJECT_ID' = IF arg1 # "" THEN arg1
                           ELSE IF typed = "" THEN DerivedProjectId
                           ELSE typed
          /\ IF usable
             THEN /\ REGION' = IF arg2 # "" THEN arg2 ELSE "us-central1"
                  /\ setupPc' = "repo"
                  /\ UNCHANGED setupExit
             ELSE /\ SetupExits(1)
                  /\ UNCHANGED REGION
    /\ UNCHANGED <<setupRunning, GITHUB_REPO, setupLog>>
    /\ UNCHANGED <<serverVars, clientVars>>

\* GITHUB_REPO=$(get_github_repo): without a remote the function returns 1
\* and the assignment ends the script under set -e
GetGithubRepo ==
    /\ setupPc = "repo"
    /\ \E origin \in Origins :
          IF origin = "none"
          THEN SetupExits(1) /\ UNCHANGED GITHUB_REPO
          ELSE /\ GITHUB_REPO' = origin
               /\ setupPc' = "confirm"
               /\ UNCHANGED setupExit
    /\ UNCHANGED <<setupRunning, PROJECT_ID, REGION, setupLog>>
    /\ UNCHANGED <<serverVars, clientVars>>

\* read -p "Continue? (y/N) " -n 1 -r
Confirm ==
    /\ setupPc = "confirm"
    /\ \E REPLY \in Replies :
          IF REPLY \notin {"y", "Y"}
          THEN SetupExits(0)
          ELSE setupPc' = "step00" /\ UNCHANGED setupExit
    /\ UNCHANGED <<setupRunning, PROJECT_ID, REGION, GITHUB_REPO, setupLog>>
    /\ UNCHANGED <<serverVars, clientVars>>

\* bash <script> <args>: main starts the child and waits for it
RunScript(at, script, args, after) ==
    /\ setupPc = at
    /\ setupRunning = ""
    /\ setupRunning' = script
    /\ setupLog' = Append(setupLog, [script |-> script, args |-> args, status |-> -1])
    /\ setupPc' = after
    /\ UNCHANGED <<PROJECT_ID, REGION, GITHUB_REPO, setupExit>>
    /\ UNCHANGED <<serverVars, clientVars>>

Step00 == RunScript("step00", "00-init-project.sh", <<PROJECT_ID, REGION>>, "step01")

Step01 ==
    RunScript("step01", "01-deploy-github-provider.sh", <<PROJECT_ID, GITHUB_REPO>>,
              "step01a")

Step01a == RunScript("step01a", "01a-setup-github-secrets.sh", <<PROJECT_ID>>, "ghenv")

\* gh api .../environments/rapid-prototype -X PUT || print_warning: its
\* failure is tolerated
CreateGithubEnvironment ==
    /\ setupPc = "ghenv"
    /\ setupRunning = ""
    /\ setupPc' = "step02"
    /\ UNCHANGED <<setupRunning, PROJECT_ID, REGION, GITHUB_REPO, setupLog, setupExit>>
    /\ UNCHANGED <<serverVars, clientVars>>

Step02 == RunScript("step02", "02-dev-infrastructure.sh", <<PROJECT_ID, REGION>>, "step05")

Step05 ==
    RunScript("step05", "05-setup-google-ai-studio-api-key.sh", <<PROJECT_ID>>, "step06")

Step06 ==
    RunScript("step06", "publish-build.sh", <<PROJECT_ID, REGION, "chat-service">>,
              "step04")

Step04 == RunScript("step04", "04-app-infrastructure.sh", <<PROJECT_ID, REGION>>, "step07")

Step07 ==
    RunScript("step07", "upload-to-cloud-storage.sh", <<PROJECT_ID \o "-spa">>, "done")

\* ScriptReturns when the script runs without set -e
ScriptReturns_NoErrexit ==
    /\ setupRunning # ""
    /\ \E status \in ExitStatuses :
          setupLog' = [setupLog EXCEPT ![Len(setupLog)].status = status]
    /\ setupRunning' = ""
    /\ UNCHANGED <<setupPc, setupExit>>
    /\ UNCHANGED <<PROJECT_ID, REGION, GITHUB_REPO>>
    /\ UNCHANGED <<serverVars, clientVars>>

\* the child script exits; under set -e a non-zero status ends setup.sh
ScriptReturns ==
    /\ setupRunning # ""
    /\ \E status \in ExitStatuses :
          /\ setupLog' = [setupLog EXCEPT ![Len(setupLog)].status = status]
          /\ IF status = 0
             THEN UNCHANGED <<setupPc, setupExit>>
             ELSE SetupExits(status)
    /\ setupRunning' = ""
    /\ UNCHANGED <<PROJECT_ID, REGION, GITHUB_REPO>>
    /\ UNCHANGED <<serverVars, clientVars>>

\* the closing summary; main returns
SetupComplete ==
    /\ setupPc = "done"
    /\ setupRunning = ""
    /\ SetupExits(0)
    /\ UNCHANGED <<setupRunning, PROJECT_ID, REGION, GITHUB_REPO, setupLog>>
    /\ UNCHANGED <<serverVars, clientVars>>

NextSetup ==
    \/ ValidateEnvironment
    \/ ResolveProject
    \/ GetGithubRepo
    \/ Confirm
    \/ Step00
    \/ Step01
    \/ Step01a
    \/ CreateGithubEnvironment
    \/ Step02
    \/ Step05
    \/ Step06
    \/ Step04
    \/ Step07
    \/ ScriptReturns
    \/ SetupComplete

SpecSetup == InitSetup /\ [][NextSetup]_vars

\* ================================================= ai-chat-interface (client)
\* innerHTML values: no element, a literal, or <p>text</p>
NoElement == [t |-> "html", none |-> TRUE]
Literal(x) == [t |-> "html", lit |-> x]
Paragraph(v) == [t |-> "html", p |-> v]
LoadingResponse == Literal("Loading response...")
FailedToFetch == Literal("Failed to fetch response.")

\* JSON.stringify(v) as a string value
JsonText(v) == [t |-> "string", json |-> v]

\* what the user types and what the host page assigns to element.data
InputTexts == {<<>>, <<" ">>, <<"a">>}
HostData == {Null, Obj([message |-> Str(<<>>)]), Obj([message |-> Str(<<"b">>)])}

\* response bodies of the chat service: a reply, another reply, a reply that
\* is not a string
ResponseData ==
    {Obj([reply |-> Str(<<"r", "1">>),
          debug |-> Obj([modelProvider |-> Str(GOOGLE_AI_STUDIO)])]),
     Obj([reply |-> Str(<<"r", "2">>)]),
     Obj([reply |-> Num(5)])}

\* how fetch settles: a network error, a non-ok response, an ok response
FetchOutcomes ==
    {Reject("Failed to fetch"),
     Resolve([ok |-> FALSE, status |-> 500, data |-> Null])}
    \cup {Resolve([ok |-> TRUE, status |-> 200, data |-> d]) : d \in ResponseData}

\* constructor, attributes set by the page, connectedCallback: its render()
\* is waiting for the stylesheet. The renders attributeChangedCallback starts
\* for the attributes present at creation build the same shadow root and
\* are folded into this one.
ClientInit ==
    /\ hasInput \in BOOLEAN
    /\ hasOutput \in BOOLEAN
    /\ pendingRenders = 1
    /\ rendered = FALSE
    /\ inputValue = <<>>
    /\ responseHTML = NoElement
    /\ responseError = FALSE
    /\ data = Null
    /\ fetches = <<>>
    /\ events = <<>>

InitClient == ServerOff /\ SetupOff /\ ClientInit

\* render() from the arrival of the stylesheet on, followed by
\* attachEventListeners(): the shadow root is rebuilt
RenderComplete ==
    /\ pendingRenders > 0
    /\ pendingRenders' = pendingRenders - 1
    /\ rendered' = TRUE
    /\ inputValue' = <<>>
    /\ responseHTML' = IF hasOutput THEN LoadingResponse ELSE NoElement
    /\ responseError' = FALSE
    /\ UNCHANGED <<hasInput, hasOutput, data, fetches, events>>
    /\ UNCHANGED <<serverVars, setupVars>>

\* the user edits the textarea
TypeInput ==
    /\ rendered /\ hasInput
    /\ \E text \in InputTexts : inputValue' = text
    /\ UNCHANGED <<hasInput, hasOutput, pendingRenders, rendered, responseHTML,
                   responseError, data, fetches, events>>
    /\ UNCHANGED <<serverVars, setupVars>>

\* the guard of fetchChatResponse
SkipFetch(d) ==
    \/ ~Truthy(d)
    \/ d.t = "object" /\ ~Truthy(Get(d.f, "message"))

\* set data(value): store the value, then fetchChatResponse() up to its
\* await of fetch
\* (via, after and stable record who assigned, how many events had been
\* dispatched and whether the shadow root was complete at that moment)
SetData(value, via) ==
    /\ data' = value
    /\ IF SkipFetch(value)
       THEN UNCHANGED fetches
       ELSE /\ Len(fetches) < MaxReq
            /\ fetches' = Append(fetches,
                   [body |-> Json(value), st |-> "pending", outcome |-> NoOutcome,
                    via |-> via, after |-> Len(events),
                    stable |-> pendingRenders = 0])

\* the host page assigns element.data
AssignData ==
    /\ \E value \in HostData : SetData(value, "page")
    /\ UNCHANGED <<hasInput, hasOutput, pendingRenders, rendered, inputValue,
                   responseHTML, responseError, events>>
    /\ UNCHANGED <<serverVars, setupVars>>

\* ClickSubmit without the trim() test
ClickSubmit_NoTrim ==
    /\ rendered /\ hasInput
    /\ IF Truthy(Str(inputValue))
       THEN SetData(Obj([message |-> Str(inputValue)]), "submit")
       ELSE UNCHANGED <<data, fetches>>
    /\ UNCHANGED <<hasInput, hasOutput, pendingRenders, rendered, inputValue,
                   responseHTML, responseError, events>>
    /\ UNCHANGED <<serverVars, setupVars>>

\* click on Submit
ClickSubmit ==
    /\ rendered /\ hasInput
    /\ IF Truthy(Str(Trim(inputValue)))
       THEN SetData(Obj([message |-> Str(inputValue)]), "submit")
       ELSE UNCHANGED <<data, fetches>>
    /\ UNCHANGED <<hasInput, hasOutput, pendingRenders, rendered, inputValue,
                   responseHTML, responseError, events>>
    /\ UNCHANGED <<serverVars, setupVars>>

\* click on Clear
ClickClear ==
    /\ rendered /\ hasInput
    /\ inputValue' = <<>>
    /\ SetData(Obj([message |-> Str(<<>>)]), "clear")
    /\ UNCHANGED <<hasInput, hasOutput, pendingRenders, rendered, responseHTML,
                   responseError, events>>
    /\ UNCHANGED <<serverVars, setupVars>>

\* renderMarkdown for a text without markdown or HTML characters: '' for a
\* falsy value, <p>text</p> for a string, a TypeError for any other value
renderMarkdown(text) ==
    IF ~Truthy(text) THEN Resolve(Literal(""))
    ELSE IF text.t # "string" THEN Reject("text.replace is not a function")
    ELSE Resolve(Paragraph(text))

\* const reply = data.reply || data.message || JSON.stringify(data)
ReplyOf(d) == JsOr(JsOr(Get(d.f, "reply"), Get(d.f, "message")), JsonText(d))

\* data.debug?.modelProvider || null
ModelProviderOf(d) ==
    IF Get(d.f, "debug") = Undefined THEN Null
    ELSE JsOr(Get(d.f["debug"].f, "modelProvider"), Null)

\* the .ai-chat-response element exists
ResponseElement == hasOutput /\ rendered

\* what fetchChatResponse does with the settled fetch: the event it
\* dispatches, or the message of the error it catches
Processed(o) ==
    IF ~o.ok THEN Reject(o.msg)
    ELSE IF ~o.v.ok THEN Reject("HTTP error! status: 500")
    ELSE IF ResponseElement /\ ~renderMarkdown(ReplyOf(o.v.data)).ok
    THEN Reject(renderMarkdown(ReplyOf(o.v.data)).msg)
    ELSE Resolve([message |-> ReplyOf(o.v.data),
                  modelProvider |-> ModelProviderOf(o.v.data)])

\* FetchSettles dispatching the error event after the message event
FetchSettles_BothEvents ==
    /\ \E i \in DOMAIN fetches :
          /\ fetches[i].st = "pending"
          /\ \E o \in FetchOutcomes :
                LET r == Processed(o)
                IN  /\ fetches' = [fetches EXCEPT ![i].st = "done", ![i].outcome = o]
                    /\ events' = events \o
                           <<[type |-> "message", req |-> i,
                              detail |-> IF r.ok THEN r.v ELSE [msg |-> r.msg]],
                             [type |-> "error", req |-> i, detail |-> [msg |-> "x"]]>>
                    /\ UNCHANGED <<responseHTML, responseError>>
    /\ UNCHANGED <<hasInput, hasOutput, pendingRenders, rendered, inputValue, data>>
    /\ UNCHANGED <<serverVars, setupVars>>

\* fetchChatResponse from the settlement of its fetch on
FetchSettles ==
    /\ \E i \in DOMAIN fetches :
          /\ fetches[i].st = "pending"
          /\ \E o \in FetchOutcomes :
                LET r == Processed(o)
                IN  /\ fetches' = [fetches EXCEPT ![i].st = "done", ![i].outcome = o]
                    /\ IF r.ok
                       THEN /\ responseHTML' =
                                   IF ResponseElement
                                   THEN renderMarkdown(r.v.message).v
                                   ELSE responseHTML
                            /\ UNCHANGED responseError
                            /\ events' = Append(events,
                                   [type |-> "message", req |-> i, detail |-> r.v])
                       ELSE /\ responseHTML' =
                                   IF ResponseElement THEN FailedToFetch ELSE responseHTML
                            /\ responseError' = (ResponseElement \/ responseError)
                            /\ events' = Append(events,
                                   [type |-> "error", req |-> i,
                                    detail |-> [msg |-> r.msg]])
    /\ UNCHANGED <<hasInput, hasOutput, pendingRenders, rendered, inputValue, data>>
    /\ UNCHANGED <<serverVars, setupVars>>

NextClient ==
    \/ RenderComplete
    \/ TypeInput
    \/ AssignData
    \/ ClickSubmit
    \/ ClickClear
    \/ FetchSettles

SpecClient == InitClient /\ [][NextClient]_vars

\* ================================================================ claims
Posts == {i \in 1..Len(reqs) : reqs[i].method = "POST"}
Gets == {i \in 1..Len(reqs) : reqs[i].method = "GET"}

\* the body has no message field, or a message that is a string made of
\* white space only (the empty string included)
BlankMessage(body) ==
    \/ "message" \notin DOMAIN body.f
    \/ /\ body.f["message"].t = "string"
       /\ \A k \in 1..Len(body.f["message"].s) : body.f["message"].s[k] \in WhiteSpace

\* C1: every POST whose body has no message, an empty message or a message of
\* white space only is answered 400 with exactly {error: "Message is required"}
C1_BlankMessageIs400 ==
    \A i \in Posts :
        BlankMessage(reqs[i].body) =>
            /\ reqs[i].st = "done"
            /\ reqs[i].res = [status |-> 400,
                              body |-> Obj([error |-> Text("Message is required")])]

C1_Witness ==
    \E i \in Posts :
        /\ reqs[i].body = Obj([message |-> Str(<<" ", "\n">>)])
        /\ reqs[i].res.status = 400

\* the backend's answer makes generateContent fail: the call was rejected, or
\* the response has no first candidate to read / its text accessor throws
BackendFailure(o) ==
    \/ ~o.ok
    \/ /\ provider.kind = "VertexAIProvider"
       /\ \/ "candidates" \notin DOMAIN o.v.f
          \/ o.v.f["candidates"].a = <<>>
    \/ /\ provider.kind = "GoogleAIStudioProvider"
       /\ ~o.v.f["text"].ok

\* C2: a POST with a valid message whose generateContent call fails is answered
\* 500 {error: "Error generating content", details: m}, m being the message of
\* the failure (for a rejected backend call, the message it was rejected with)
C2_GenerationFailureIs500 ==
    \A i \in Posts :
        (reqs[i].outcome # NoOutcome /\ BackendFailure(reqs[i].outcome)) =>
            /\ reqs[i].res.status = 500
            /\ DOMAIN reqs[i].res.body.f = {"error", "details"}
            /\ reqs[i].res.body.f["error"] = Text("Error generating content")
            /\ reqs[i].res.body.f["details"].t = "string"
            /\ ~reqs[i].outcome.ok =>
                   reqs[i].res.body.f["details"] = Text(reqs[i].outcome.msg)
            /\ (reqs[i].outcome.ok /\ provider.kind = "GoogleAIStudioProvider") =>
                   reqs[i].res.body.f["details"] = Text(reqs[i].outcome.v.f["text"].msg)

C2_Witness ==
    \E i \in Posts :
        /\ reqs[i].outcome = Reject("backend unavailable")
        /\ reqs[i].res.status = 500

\* the text of the first candidate of the backend's answer to request i
OwnText(i) ==
    IF provider.kind = "VertexAIProvider"
    THEN reqs[i].outcome.v.f["candidates"].a[1]
    ELSE reqs[i].outcome.v.f["text"].v

\* C3: a POST whose generateContent call succeeds is answered 200 with reply =
\* the first candidate's text of the backend's answer to that very request and
\* request = the body of that very request, whatever else is in flight
C3_ReplyIsOwnText ==
    \A i \in Posts :
        (reqs[i].outcome # NoOutcome /\ ~BackendFailure(reqs[i].outcome)) =>
            /\ reqs[i].res.status = 200
            /\ Get(reqs[i].res.body.f, "reply") = OwnText(i)
            /\ Get(reqs[i].res.body.f, "request") = reqs[i].body

\* request 2 was answered while request 1 was still awaiting the backend, and
\* request 1 then got a different text for a different body
C3_Witness ==
    /\ provider.kind = "VertexAIProvider"
    /\ Len(reqs) = 2
    /\ reqs[1].method = "POST" /\ reqs[2].method = "POST"
    /\ reqs[1].res.status = 200 /\ reqs[2].res.status = 200
    /\ reqs[1].body # reqs[2].body
    /\ Get(reqs[1].res.body.f, "reply") = Text("r2")
    /\ Get(reqs[2].res.body.f, "reply") = Text("r1")
    /\ Len(reqs[1].outcome.v.f["candidates"].a) = 2

\* a step that handles a GET request
GetStep ==
    /\ Len(reqs') = Len(reqs) + 1
    /\ reqs'[Len(reqs')].method = "GET"

\* C4: handling a GET answers 200 {message: "Health check successful",
\* request: <its body>} and leaves the provider, the init count and the
\* outbound model calls as they were
C4_GetIsHealthCheck ==
    [][GetStep =>
         /\ reqs'[Len(reqs')].res =
                [status |-> 200,
                 body |-> Obj([message |-> Text("Health check successful"),
                               request |-> reqs'[Len(reqs')].body])]
         /\ UNCHANGED <<provider, initCalls, secretCalls, secretAnswer, calls>>]_vars

\* a GET with a body answered while a POST is awaiting the backend
C4_Witness ==
    /\ Len(reqs) = 2
    /\ reqs[1].method = "POST" /\ reqs[1].st = "awaiting"
    /\ reqs[2].method = "GET" /\ reqs[2].res.status = 200
    /\ reqs[2].body # EmptyObj

\* C5: the port is bound, requests are handled and generateContent is called
\* only after provider.init() completed without error, so the model handle is
\* never null then
C5_InitBeforeListen ==
    (listening \/ reqs # <<>> \/ calls # <<>>) =>
        /\ initCalls = 1
        /\ initError = ""
        /\ provider.model # NoModel
        /\ pc = "listening"

C5_Witness == calls # <<>> /\ provider.kind = "GoogleAIStudioProvider"

\* MODEL_PROVIDER is set to a non-empty value that is not a recognized kind
UnknownKind ==
    /\ Truthy(env["MODEL_PROVIDER"])
    /\ env["MODEL_PROVIDER"] \notin {Str(GOOGLE_VERTEXAI), Str(GOOGLE_AI_STUDIO)}

Loaded == pc \notin {"load", "create"}

\* C6: with a non-empty unrecognized provider kind no provider is constructed,
\* init is never called, the port is never bound and the process ends with
\* a failure exit code
C6_UnknownKindIsFatal ==
    UnknownKind =>
        /\ provider = NoProvider
        /\ initCalls = 0
        /\ ~listening
        /\ Loaded => (pc = "exited" /\ exitCode = 1)

C6_Witness == UnknownKind /\ pc = "exited" /\ exitCode = 1

\* C7 as stated: unset selects GoogleAIStudioProvider, each recognized value
\* its own variant, and any other value is fatal
C7_Original ==
    Loaded =>
        CASE env["MODEL_PROVIDER"] = Undefined ->
                 provider.kind = "GoogleAIStudioProvider"
          [] env["MODEL_PROVIDER"] = Str(GOOGLE_VERTEXAI) ->
                 provider.kind = "VertexAIProvider"
          [] env["MODEL_PROVIDER"] = Str(GOOGLE_AI_STUDIO) ->
                 provider.kind = "GoogleAIStudioProvider"
          [] OTHER -> provider = NoProvider /\ pc = "exited" /\ exitCode = 1

\* C7 (amended): unset or set to the empty string selects
\* GoogleAIStudioProvider, each recognized value its own variant, and any other
\* non-empty value is fatal
C7_Selection ==
    Loaded =>
        CASE env["MODEL_PROVIDER"] \in {Undefined, Str(<<>>)} ->
                 provider.kind = "GoogleAIStudioProvider"
          [] env["MODEL_PROVIDER"] = Str(GOOGLE_VERTEXAI) ->
                 provider.kind = "VertexAIProvider"
          [] env["MODEL_PROVIDER"] = Str(GOOGLE_AI_STUDIO) ->
                 provider.kind = "GoogleAIStudioProvider"
          [] OTHER -> provider = NoProvider /\ pc = "exited" /\ exitCode = 1

C7_Witness ==
    /\ env["MODEL_PROVIDER"] = Str(<<>>)
    /\ provider.kind = "GoogleAIStudioProvider"
    /\ listening

NoProjectConfigured ==
    ~Truthy(env["GOOGLE_CLOUD_PROJECT"]) /\ ~Truthy(env["GCP_PROJECT"])

\* C8: with the Vertex variant and no project configured, init fails with the
\* missing-project error before a model client exists, the port is never
\* bound and the process exits with code 1
C8_VertexNeedsProject ==
    (provider.kind = "VertexAIProvider" /\ NoProjectConfigured) =>
        /\ provider.model = NoModel
        /\ ~listening
        /\ \/ pc = "start"
           \/ pc = "initFailed" /\ initError = ErrNoProjectVertex
           \/ pc = "exited" /\ exitCode = 1 /\ initError = ErrNoProjectVertex

C8_Witness ==
    /\ provider.kind = "VertexAIProvider"
    /\ NoProjectConfigured
    /\ pc = "exited"

NoSecretConfigured == ~Truthy(env["GOOGLE_AI_STUDIO_API_SECRET"])

FullyQualified(name) == StartsWith(name.s, ProjectsPrefix)

\* C10: for the API-key variant a project is required exactly when the secret
\* reference is a bare name: a bare name without project fails init with the
\* missing-project error before the secret service is contacted, and in every
\* other case init goes on to ask the secret service, so a fully-qualified
\* reference initializes without a project
C10_ProjectOnlyForBareName ==
    (provider.kind = "GoogleAIStudioProvider" /\ pc # "start") =>
        IF ~FullyQualified(provider.secretName) /\ NoProjectConfigured
        THEN /\ secretCalls = <<>>
             /\ provider.model = NoModel
             /\ ~listening
             /\ initError = ErrNoProjectSecret
             /\ pc \in {"initFailed", "exited"}
             /\ pc = "exited" => exitCode = 1
        ELSE /\ Len(secretCalls) = 1
             /\ initError # ErrNoProjectSecret

C10_Witness ==
    /\ provider.kind = "GoogleAIStudioProvider"
    /\ FullyQualified(provider.secretName)
    /\ NoProjectConfigured
    /\ listening
    /\ provider.model # NoModel

\* projects/p1/secrets/s/versions/latest
P1SLatest ==
    <<"p", "r", "o", "j", "e", "c", "t", "s", "/", "p", "1", "/",
      "s", "e", "c", "r", "e", "t", "s", "/", "s", "/",
      "v", "e", "r", "s", "i", "o", "n", "s", "/", "l", "a", "t", "e", "s", "t">>

\* path is projects/<P>/secrets/<N>/versions/latest
IsLatestPath(path, P, N) ==
    /\ Len(path) = 9 + Len(P) + 9 + Len(N) + 16
    /\ SubSeq(path, 1, 9) = <<"p", "r", "o", "j", "e", "c", "t", "s", "/">>
    /\ SubSeq(path, 10, 9 + Len(P)) = P
    /\ SubSeq(path, 10 + Len(P), 18 + Len(P)) =
           <<"/", "s", "e", "c", "r", "e", "t", "s", "/">>
    /\ SubSeq(path, 19 + Len(P), 18 + Len(P) + Len(N)) = N
    /\ SubSeq(path, 19 + Len(P) + Len(N), Len(path)) =
           <<"/", "v", "e", "r", "s", "i", "o", "n", "s", "/",
             "l", "a", "t", "e", "s", "t">>

\* C11: the one path passed to accessSecretVersion is
\* projects/<project>/secrets/<name>/versions/latest: for a bare name with the
\* configured project, for the reference projects/p1/secrets/s with project
\* p1 and name s, so that the bare name s under project p1 and the reference
\* projects/p1/secrets/s ask for the identical path
C11_SecretVersionPath ==
    secretCalls # <<>> =>
        /\ Len(secretCalls) = 1
        /\ ~FullyQualified(provider.secretName) =>
               IsLatestPath(secretCalls[1], project.s, provider.secretName.s)
        /\ provider.secretName = Str(FqSecretRef) =>
               /\ IsLatestPath(secretCalls[1], <<"p", "1">>, <<"s">>)
               /\ secretCalls[1] = P1SLatest
        /\ (provider.secretName = Str(<<"s">>) /\ project = Str(<<"p", "1">>)) =>
               secretCalls[1] = P1SLatest

C11_Witness ==
    /\ provider.kind = "GoogleAIStudioProvider"
    /\ provider.secretName = Str(FqSecretRef)
    /\ NoProjectConfigured
    /\ secretCalls = <<P1SLatest>>

\* accessSecretVersion was rejected, or its answer has no payload data to read
SecretFailure(o) ==
    \/ ~o.ok
    \/ "payload" \notin DOMAIN o.v.f
    \/ "data" \notin DOMAIN o.v.f["payload"].f

\* C12: after a failed secret resolution (rejected access, missing payload,
\* payload without data) no model client exists, the port is never bound, no
\* request is handled and the process exits with code 1
C12_SecretFailureIsFatal ==
    (secretAnswer # NoOutcome /\ SecretFailure(secretAnswer)) =>
        /\ provider.model = NoModel
        /\ ~listening
        /\ reqs = <<>>
        /\ initError # ""
        /\ pc \in {"initFailed", "exited"}
        /\ pc = "exited" => exitCode = 1

C12_Witness ==
    /\ secretAnswer = Resolve(Obj([name |-> Text("v")]))
    /\ pc = "exited"
    /\ exitCode = 1

FailedResponse(r) == r.status \in {400, 500}

\* C13: the process exits only during startup, before any request is handled;
\* once listening it keeps listening whatever the requests' outcomes, and a
\* request that arrives after failed ones and gets a good backend answer is
\* answered 200
C13_OnlyStartupTerminates ==
    /\ exitCode # -1 => (~listening /\ reqs = <<>> /\ pc = "exited")
    /\ reqs # <<>> => (listening /\ pc = "listening" /\ exitCode = -1)
    /\ \A i \in Posts :
          (/\ \E j \in 1..(i - 1) : FailedResponse(reqs[j].res)
           /\ reqs[i].outcome # NoOutcome
           /\ ~BackendFailure(reqs[i].outcome)) =>
              reqs[i].res.status = 200

C13_Witness ==
    /\ Len(reqs) = 2
    /\ reqs[1].method = "POST" /\ reqs[2].method = "POST"
    /\ reqs[1].outcome = Reject("backend unavailable")
    /\ reqs[1].res.status = 500
    /\ reqs[2].res.status = 200
    /\ listening /\ exitCode = -1

\* the message is a truthy value that is not a string, so that reading
\* userMessage.trim() throws before the provider is called
UnexpectedMessage(body) ==
    /\ "message" \in DOMAIN body.f
    /\ body.f["message"].t = "number"
    /\ body.f["message"].n # 0

EmptyAnswer(o) ==
    /\ o.ok
    /\ IF provider.kind = "VertexAIProvider"
       THEN \/ "candidates" \notin DOMAIN o.v.f
            \/ o.v.f["candidates"].a = <<>>
            \/ o.v.f["candidates"].a[1] = Undefined
       ELSE o.v.f["text"] = Resolve(Text(""))

\* C15 as stated: a backend response with zero candidates or an otherwise
\* malformed or empty shape makes the POST end in a 500, never in a reply
\* that is empty, null or undefined
C15_Claim ==
    \A i \in Posts :
        (reqs[i].outcome # NoOutcome /\ EmptyAnswer(reqs[i].outcome)) =>
            reqs[i].res.status = 500

\* C16 as stated: every 200 response to POST / carries a reply that is a
\* string
C16_Claim ==
    \A i \in Posts :
        reqs[i].res.status = 200 =>
            /\ "reply" \in DOMAIN reqs[i].res.body.f
            /\ reqs[i].res.body.f["reply"].t = "string"

\* C17: once constructed the provider keeps its variant in every step, and
\* every outbound call has the shape of the variant the configuration
\* selected: a contents block for google-vertexai, the raw string otherwise
C17_OneVariantForLife ==
    [][/\ provider.kind # "none" => provider'.kind = provider.kind
       /\ \A k \in DOMAIN calls' :
             IF modelProvider' = Str(GOOGLE_VERTEXAI)
             THEN /\ provider'.kind = "VertexAIProvider"
                  /\ calls'[k].prompt.t = "object"
             ELSE /\ provider'.kind = "GoogleAIStudioProvider"
                  /\ calls'[k].prompt.t = "string"]_vars

C17_Witness ==
    /\ provider.kind = "VertexAIProvider"
    /\ Len(calls) = 2
    /\ reqs[1].res.status = 500
    /\ reqs[2].res.status = 200

\* C18: while the server is listening no step writes the provider object, a
\* request keeps its body, a response once sent is not touched by the
\* handling of other requests, and a request completes only from awaiting
C18_RequestsDoNotInterfere ==
    [][listening =>
         /\ provider' = provider
         /\ Len(reqs') >= Len(reqs)
         /\ \A i \in 1..Len(reqs) :
               /\ reqs'[i].body = reqs[i].body
               /\ reqs[i].st = "done" => reqs'[i] = reqs[i]
         /\ Cardinality({i \in 1..Len(reqs) : reqs'[i] # reqs[i]}) <= 1]_vars

\* two generateContent calls were in flight at once: the second request got
\* its backend answer while the first is still awaiting its own
C18_Witness ==
    /\ Len(reqs) = 2
    /\ Len(calls) = 2
    /\ reqs[1].st = "awaiting"
    /\ reqs[2].st = "done"
    /\ reqs[2].outcome # NoOutcome

\* the message is a string with a character that is not white space
HasText(body) ==
    /\ "message" \in DOMAIN body.f
    /\ body.f["message"].t = "string"
    /\ \E k \in 1..Len(body.f["message"].s) : body.f["message"].s[k] \notin WhiteSpace

CallsOf(i) == {k \in DOMAIN calls : calls[k].req = i}

\* C19: a POST with a non-blank message has exactly one outbound model call,
\* before and after its answer and also after a failure; any other request
\* has none
C19_OneCallPerRequest ==
    /\ \A i \in 1..Len(reqs) :
          Cardinality(CallsOf(i)) =
              IF reqs[i].method = "POST" /\ HasText(reqs[i].body) THEN 1 ELSE 0
    /\ \A k \in DOMAIN calls : calls[k].req \in 1..Len(reqs)

C19_Witness ==
    \E i \in Posts :
        /\ reqs[i].outcome = Reject("backend unavailable")
        /\ reqs[i].res.status = 500
        /\ Cardinality(CallsOf(i)) = 1

C21_InitExactlyOnce ==
    /\ initCalls <= 1
    /\ (listening \/ reqs # <<>>) => initCalls = 1
    /\ pc \in {"awaitSecret", "initDone", "initFailed", "listening"} => initCalls = 1

C21_Witness ==
    /\ listening
    /\ initCalls = 1
    /\ Len(reqs) = 2
    /\ reqs[1].res.status = 500
    /\ reqs[1].outcome # NoOutcome
    /\ reqs[2].res.status = 200

\* the prompt the selected variant must send for a message
ExpectedPrompt(message) ==
    IF modelProvider = Str(GOOGLE_VERTEXAI)
    THEN [t |-> "object",
          f |-> [contents |-> [t |-> "array", a |->
                    <<[t |-> "object",
                       f |-> [role |-> Text("user"),
                              parts |-> [t |-> "array", a |->
                                  <<[t |-> "object", f |-> [text |-> message]]>>]]]>>]]]
    ELSE message

\* C22: every outbound call carries the message of its request exactly as it
\* arrived: as the only text part of one user-role content block for the
\* Vertex variant, as the raw string for the API-key variant
C22_PromptIsMessage ==
    \A k \in DOMAIN calls :
        calls[k].prompt = ExpectedPrompt(reqs[calls[k].req].body.f["message"])

PaddedMessage == Str(<<" ", "a", " ">>)

C22_Witness ==
    /\ Len(calls) = 2
    /\ provider.kind = "VertexAIProvider"
    /\ reqs[calls[1].req].body.f["message"] = PaddedMessage
    /\ calls[1].prompt.f["contents"].a[1].f["parts"].a[1].f["text"] = PaddedMessage
    /\ reqs[calls[2].req].body.f["message"] = Str(<<"a">>)

\* the configuration values the environment resolves to at process start
ResolvedModelName == JsOr(env["MODEL_NAME"], Str(DefaultModelName))
ResolvedProject == JsOr(env["GOOGLE_CLOUD_PROJECT"], env["GCP_PROJECT"])
ResolvedLocation ==
    JsOr(JsOr(env["GOOGLE_CLOUD_REGION"], env["GCP_REGION"]), Str(DefaultLocation))
ResolvedProvider == JsOr(env["MODEL_PROVIDER"], Str(GOOGLE_AI_STUDIO))

Successes == {i \in Posts : reqs[i].res.status = 200}

\* C23: every 200 response to POST / has a debug object whose MODEL_NAME,
\* project, location and modelProvider read as the values the environment
\* resolved to at start (a project that resolved to undefined reads as
\* undefined), and nothing else; all successes of a process share it
C23_DebugIsStartConfig ==
    \A i \in Successes :
        /\ "debug" \in DOMAIN reqs[i].res.body.f
        /\ LET d == reqs[i].res.body.f["debug"]
           IN  /\ d.t = "object"
               /\ DOMAIN d.f \subseteq {"MODEL_NAME", "project", "location", "modelProvider"}
               /\ Get(d.f, "MODEL_NAME") = ResolvedModelName
               /\ Get(d.f, "project") = ResolvedProject
               /\ Get(d.f, "location") = ResolvedLocation
               /\ Get(d.f, "modelProvider") = ResolvedProvider
        /\ \A j \in Successes : reqs[j].res.body.f["debug"] = reqs[i].res.body.f["debug"]

C23_Witness ==
    /\ env["MODEL_NAME"] # Undefined
    /\ Successes = {1, 2}
    /\ reqs[1].body # reqs[2].body
    /\ reqs[1].outcome # reqs[2].outcome
    /\ reqs[1].res.body.f["debug"].f["MODEL_NAME"] = env["MODEL_NAME"]

\* C25 as stated: a POST is answered 500 only when generateContent was
\* invoked for it and failed; a request that made no provider call is
\* answered 400
C25_Claim ==
    \A i \in Posts :
        /\ reqs[i].res.status = 500 =>
               /\ CallsOf(i) # {}
               /\ reqs[i].outcome # NoOutcome
        /\ (reqs[i].st = "done" /\ CallsOf(i) = {}) => reqs[i].res.status = 400

\* C26: a step that answers a POST with 400 adds no outbound call and leaves
\* the provider as it was, and a step that adds an outbound call adds it for
\* the request just received, whose message is a non-blank string
C26_RejectionCallsNothing ==
    [][/\ (/\ Len(reqs') = Len(reqs) + 1
           /\ reqs'[Len(reqs')].res.status = 400) =>
              /\ calls' = calls
              /\ provider' = provider
       /\ calls' # calls =>
              /\ Len(calls') = Len(calls) + 1
              /\ calls'[Len(calls')].req = Len(reqs')
              /\ HasText(reqs'[Len(reqs')].body)]_vars

C26_Witness ==
    /\ Len(reqs) = 2
    /\ reqs[1].res.status = 400
    /\ reqs[2].res.status = 400
    /\ reqs[1].body # reqs[2].body
    /\ calls = <<>>
    /\ provider.model # NoModel

Started(script) == \E k \in DOMAIN setupLog : setupLog[k].script = script

Completed(script) ==
    \E k \in DOMAIN setupLog : setupLog[k].script = script /\ setupLog[k].status = 0

\* every script of the order has started only after all scripts ahead of it
\* in the order have completed
RunsInOrder(order) ==
    \A j \in DOMAIN order :
        Started(order[j]) => \A i \in 1..(j - 1) : Completed(order[i])

\* the order of the header of setup.sh
DocumentedOrder ==
    <<"00-init-project.sh", "01-deploy-github-provider.sh",
      "01a-setup-github-secrets.sh", "02-dev-infrastructure.sh",
      "04-app-infrastructure.sh", "05-setup-google-ai-studio-api-key.sh",
      "publish-build.sh", "06-app-deploy-api.sh", "upload-to-cloud-storage.sh">>

\* the order main runs the scripts in
MainOrder ==
    <<"00-init-project.sh", "01-deploy-github-provider.sh",
      "01a-setup-github-secrets.sh", "02-dev-infrastructure.sh",
      "05-setup-google-ai-studio-api-key.sh", "publish-build.sh",
      "04-app-infrastructure.sh", "upload-to-cloud-storage.sh">>

EventsOf(i) == {k \in DOMAIN events : events[k].req = i}

\* POST i has led to a 'message' event
Succeeded(i) == \E k \in EventsOf(i) : events[k].type = "message"

\* POST i was still waiting for its response when POST j was issued
Overlapped(i, j) ==
    /\ i < j
    /\ \A k \in 1..fetches[j].after : events[k].req # i

\* every POST was issued with the shadow root complete, so the response
\* element (if any) has not been rebuilt since
SettledDom == \A i \in DOMAIN fetches : fetches[i].stable

\* the last 'message' event dispatched
LastMessage ==
    events[CHOOSE k \in DOMAIN events :
               /\ events[k].type = "message"
               /\ \A l \in DOMAIN events : events[l].type = "message" => l <= k]

\* C27 as stated: after two overlapping submissions have both been answered
\* with a reply, the displayed response and the last 'message' event are
\* those of the later submission, in whatever order the responses arrived
C27_Claim ==
    \A i, j \in DOMAIN fetches :
        (/\ j = Len(fetches)
         /\ Overlapped(i, j)
         /\ SettledDom
         /\ \A k \in DOMAIN fetches : fetches[k].st = "done"
         /\ Succeeded(i) /\ Succeeded(j)) =>
            /\ LastMessage.req = j
            /\ hasOutput =>
                   responseHTML = renderMarkdown(ReplyOf(fetches[j].outcome.v.data)).v

\* C28 as stated: the response element carries the error marking exactly
\* when the most recently completed request failed
C28_Claim ==
    (events # <<>> /\ hasOutput /\ SettledDom) =>
        (responseError <=> events[Len(events)].type = "error")

\* data is an object with a non-empty message
NonEmptyMessage(d) == d.t = "object" /\ Truthy(Get(d.f, "message"))

\* the fetch for POST i settled with an ok response
OkResponse(i) == fetches[i].outcome.ok /\ fetches[i].outcome.v.ok

\* every answered POST has exactly one event and every waiting POST none;
\* the event is 'error' when the fetch failed or the response was not ok,
\* 'message' when the response was ok and its reply is a string
OneEventPerPost ==
    /\ \A i \in DOMAIN fetches :
          /\ Cardinality(EventsOf(i)) = IF fetches[i].st = "done" THEN 1 ELSE 0
          /\ \A k \in EventsOf(i) :
                /\ events[k].type \in {"message", "error"}
                /\ ~OkResponse(i) => events[k].type = "error"
                /\ (OkResponse(i) /\ ReplyOf(fetches[i].outcome.v.data).t = "string")
                       => events[k].type = "message"
                /\ (OkResponse(i) /\ ~hasOutput) => events[k].type = "message"
    /\ \A k \in DOMAIN events : events[k].req \in DOMAIN fetches

\* C29: an assignment of data with a non-empty message issues exactly one
\* POST, carrying that data; an assignment of null or of an empty message
\* issues none and dispatches nothing; a POST is issued by nothing else; and
\* every POST leads to exactly one event when it is answered, 'message' if
\* the request and its processing succeeded and 'error' otherwise
C29_OnePostOneEvent ==
    /\ []OneEventPerPost
    /\ [][/\ Len(fetches') \in {Len(fetches), Len(fetches) + 1}
          /\ Len(fetches') = Len(fetches) + 1 =>
                /\ NonEmptyMessage(data')
                /\ fetches'[Len(fetches')].body = data'
                /\ fetches'[Len(fetches')].st = "pending"
                /\ events' = events
          /\ (data' # data /\ NonEmptyMessage(data')) => Len(fetches') = Len(fetches) + 1
          /\ (data' # data /\ ~NonEmptyMessage(data')) =>
                fetches' = fetches /\ events' = events
          /\ Len(events') \in {Len(events), Len(events) + 1}]_vars

C29_Witness ==
    /\ Len(fetches) = 2
    /\ Len(events) = 2
    /\ events[1].type = "error" /\ events[1].req = 2
    /\ events[2].type = "message" /\ events[2].req = 1
    /\ fetches[1].via = "page"
    /\ data = Obj([message |-> Str(<<>>)])

\* no POST issued by a click carries a blank message, and Clear issues none
NoBlankFromClicks ==
    \A i \in DOMAIN fetches :
        /\ fetches[i].via # "clear"
        /\ fetches[i].via = "submit" => HasText(fetches[i].body)

====
